---- MODULE Spec2Model ----
(***************************************************************************)
(* Model of Scripts/smart_search.py (class SmartSearch): the record store   *)
(* `files`, the external-content FTS5 index `files_fts`, the table          *)
(* `search_history`, and the operations index_file, build_index, search     *)
(* and add_custom_tag, as run on one long-lived connection, and index       *)
(* passes and searches run on two connections to the same database file.   *)
(*                                                                          *)
(* Text is modelled by TLA+ strings; all model strings are lower case       *)
(* except the path segment "Work", so str.lower() is modelled by Lower.     *)
(* Timestamps taken from the wall clock (indexed_date, timestamp) are not   *)
(* modelled: no operation reads them back.                                  *)
(***************************************************************************)
EXTENDS Integers, Sequences, FiniteSets, TLC

\* ------------------------------------------------------------------ bounds
\* Largest rowid the model lets the files table hand out.
MaxId == 2
\* Largest number of rows of search_history.
MaxHistory == 2
\* Number of successive contents a file goes through.
MaxVersion == 2

\* ------------------------------------------------------- program constants
\* config["max_content_preview"]
MaxContentPreview == 1000
\* default of search()'s limit parameter
DefaultLimit == 50

\* --------------------------------------------------------------- SQL NULL
\* A nullable column holds SqlNull or SqlVal(v).
SqlNull == <<>>
SqlVal(v) == <<v>>
IsNull(x) == x = <<>>
ValOf(x) == x[1]

\* ----------------------------------------------------------------- strings
Min(a, b) == IF a < b THEN a ELSE b

CharAt(s, i) == SubSeq(s, i, i)

\* needle in hay (Python `in`, SQL LIKE '%needle%' on lower-case text)
Contains(hay, needle) ==
    \E i \in 1..(Len(hay) - Len(needle) + 1) :
        SubSeq(hay, i, i + Len(needle) - 1) = needle

\* str.startswith
StartsWith(s, pre) == Len(pre) <= Len(s) /\ SubSeq(s, 1, Len(pre)) = pre

\* first index at which needle occurs in hay, 0 when it does not
IndexOf(hay, needle) ==
    IF Contains(hay, needle)
    THEN CHOOSE i \in 1..(Len(hay) - Len(needle) + 1) :
            /\ SubSeq(hay, i, i + Len(needle) - 1) = needle
            /\ \A j \in 1..(i - 1) : SubSeq(hay, j, j + Len(needle) - 1) # needle
    ELSE 0

\* last index at which the one-character string c occurs in s, 0 when none
LastIndexOf(s, c) ==
    IF \E i \in 1..Len(s) : CharAt(s, i) = c
    THEN CHOOSE i \in 1..Len(s) :
            CharAt(s, i) = c /\ \A j \in (i + 1)..Len(s) : CharAt(s, j) # c
    ELSE 0

UpperChars == "ABCDEFGHIJKLMNOPQRSTUVWXYZ"
LowerChars == "abcdefghijklmnopqrstuvwxyz"
DigitChars == "0123456789"

LowerChar(c) ==
    IF Contains(UpperChars, c)
    THEN CharAt(LowerChars, IndexOf(UpperChars, c))
    ELSE c

RECURSIVE Lower(_)
\* str.lower()
Lower(s) == IF s = "" THEN "" ELSE LowerChar(CharAt(s, 1)) \o Lower(SubSeq(s, 2, Len(s)))

IsAlnum(c) == Contains(LowerChars, c) \/ Contains(UpperChars, c) \/ Contains(DigitChars, c)

IsSpace(c) == c = " "

RECURSIVE LStrip(_)
LStrip(s) == IF s # "" /\ IsSpace(CharAt(s, 1)) THEN LStrip(SubSeq(s, 2, Len(s))) ELSE s

RECURSIVE RStrip(_)
RStrip(s) ==
    IF s # "" /\ IsSpace(CharAt(s, Len(s))) THEN RStrip(SubSeq(s, 1, Len(s) - 1)) ELSE s

\* str.strip()
Strip(s) == RStrip(LStrip(s))

RECURSIVE SplitFrom(_, _, _, _)
SplitFrom(s, sep, i, cur) ==
    IF i > Len(s) THEN {cur}
    ELSE IF CharAt(s, i) = sep THEN {cur} \cup SplitFrom(s, sep, i + 1, "")
    ELSE SplitFrom(s, sep, i + 1, cur \o CharAt(s, i))

\* the set of pieces of s.split(sep), sep one character
Split(s, sep) == SplitFrom(s, sep, 1, "")

RECURSIVE TokensFrom(_, _, _)
TokensFrom(s, i, cur) ==
    IF i > Len(s) THEN (IF cur = "" THEN {} ELSE {cur})
    ELSE IF IsAlnum(CharAt(s, i)) THEN TokensFrom(s, i + 1, cur \o LowerChar(CharAt(s, i)))
    ELSE (IF cur = "" THEN {} ELSE {cur}) \cup TokensFrom(s, i + 1, "")

\* The terms the FTS5 default tokenizer (unicode61) makes of a text: the
\* maximal runs of letters and digits, folded to lower case.
Tokenize(s) == TokensFrom(s, 1, "")

\* -------------------------------------------------------- the file system
\* The indexed volume: drive_path is "/d".
PathA == "/d/Work/alice/a.txt"
PathB == "/d/notes/b.txt"
Paths == {PathA, PathB}

\* The successive byte contents of a file (text files, so bytes and text
\* agree): a file holds Versions[k] after its k-th write, and the time of
\* that write, in whole seconds, is k.
Versions == <<"alpha ", "budget todo", "meeting notes">>

\* The arguments the operations are called with.
CustomTagInputs == {"important"}
\* the tag arguments of the runs that look at the tag set itself: the
\* command line passes any string on, the empty one included
TagArguments == CustomTagInputs \cup {""}
Queries == {"", "alpha", "a.txt"}
FileTypes == {"", "document", "important"}
Owners == {"", "alice"}
DateRanges == {<<>>, <<1, 2>>}
Limits == {DefaultLimit, 1}

\* The wider arguments of the searches that exercise the filters: a literal
\* tag value that is part of a longer tag, a range that holds one time only,
\* a range that is no pair, and the limits 0 and -1.
FilterFileTypes == FileTypes \cup {"small"}
FilterDateRanges == DateRanges \cup {<<2, 2>>, <<1>>}
FilterLimits == Limits \cup {0, -1}

\* what the file system holds for one path
FileStates ==
    {[content |-> Versions[k], modified |-> k, readable |-> r] :
        k \in 1..MaxVersion, r \in BOOLEAN}

VARIABLES
    fts5_checks,\* whether the SQLite build's FTS5 checks its column totals
    disk,       \* path -> [content, modified, readable]: the files on the volume
    files,      \* table files: path -> row, for the paths that have a row
    fts,        \* index files_fts: rowid -> the terms indexed under it, per column
    history,    \* table search_history, in rowid order
    builtFrom,  \* path -> the bytes on disk when the path's row was written
    ret,        \* what the last call did and returned, if no file changed since
    tx          \* the transactions of the connections that share the database file

vars == <<fts5_checks, disk, files, fts, history, builtFrom, ret, tx>>

\* pathlib: Path.name
FileName(path) == SubSeq(path, LastIndexOf(path, "/") + 1, Len(path))

\* pathlib: Path.suffix, then .lower()
Suffix(path) ==
    LET name == FileName(path)
        dot == LastIndexOf(name, ".")
    IN IF dot > 1 THEN Lower(SubSeq(name, dot, Len(name))) ELSE ""

\* stat.st_size of a file in state f
SizeOf(f) == Len(f.content)

\* config["auto_tag_patterns"]
AutoTagPatterns ==
    [code |-> {".py", ".js", ".html", ".css", ".json"},
     document |-> {".pdf", ".doc", ".docx", ".txt", ".md"},
     image |-> {".jpg", ".jpeg", ".png", ".gif", ".bmp", ".tiff"},
     video |-> {".mp4", ".mov", ".avi", ".mkv", ".wmv"},
     audio |-> {".mp3", ".wav", ".flac", ".aac", ".ogg"}]

TextSuffixes == {".txt", ".md", ".py", ".js", ".html", ".css", ".json"}

\* hashlib.md5(bytes).hexdigest(): distinct contents have distinct digests
Md5(bytes) == "md5:" \o bytes

HashNone == "None"

\* calculate_file_hash: the digest, or None when the file cannot be read
calculate_file_hash(f) ==
    IF f.readable THEN Md5(f.content) ELSE HashNone

\* the extensions extract_content_preview hands to exiftool
ExifSuffixes == {".jpg", ".jpeg", ".tiff"}

\* the length the exiftool branch cuts the tool's output to
ExifPreviewLimit == 500

\* What a run of an external tool (pdftotext, exiftool) comes to: it
\* exits 0, exits nonzero, outlives the timeout (subprocess.TimeoutExpired)
\* or is not installed (FileNotFoundError); stdout is what it has written.
ToolOutputs == {"", "ab"}

ToolRuns ==
    {[status |-> "ok", stdout |-> out] : out \in ToolOutputs}
    \cup {[status |-> st, stdout |-> "ab"] : st \in {"nonzero", "timeout"}}
    \cup {[status |-> "missing", stdout |-> ""]}

ToolMissing == [status |-> "missing", stdout |-> ""]

\* the values of config["max_content_preview"] the model configures
MaxPreviews == {0, 2, MaxContentPreview}

\* s[:n]
Prefix(s, n) == SubSeq(s, 1, Min(n, Len(s)))

\* an extractor that takes the tool's output whatever its exit status
ExtractIgnoringStatus(path, f, tool, max_content_preview) ==
    IF Suffix(path) \in TextSuffixes
    THEN IF f.readable THEN Strip(Prefix(f.content, max_content_preview)) ELSE ""
    ELSE IF Suffix(path) = ".pdf" THEN Prefix(tool.stdout, max_content_preview)
    ELSE IF Suffix(path) \in ExifSuffixes THEN Prefix(tool.stdout, ExifPreviewLimit)
    ELSE ""

\* extract_content_preview(filepath) under config["max_content_preview"],
\* tool being the run of the external tool the file's type calls for: the
\* first max_content_preview characters of a text file, stripped; the
\* first max_content_preview characters pdftotext prints for a .pdf; the
\* first 500 characters exiftool prints for an image; "" for any other
\* type, when reading fails and when the tool does not exit 0.
ExtractContentPreview(path, f, tool, max_content_preview) ==
    IF Suffix(path) \in TextSuffixes
    THEN IF f.readable THEN Strip(Prefix(f.content, max_content_preview)) ELSE ""
    ELSE IF Suffix(path) = ".pdf"
    THEN IF tool.status = "ok" THEN Prefix(tool.stdout, max_content_preview) ELSE ""
    ELSE IF Suffix(path) \in ExifSuffixes
    THEN IF tool.status = "ok" THEN Prefix(tool.stdout, ExifPreviewLimit) ELSE ""
    ELSE ""

\* extract_content_preview on the model's volume: the default
\* max_content_preview, no external tool installed
extract_content_preview(path, f) ==
    ExtractContentPreview(path, f, ToolMissing, MaxContentPreview)

PathVocabulary == {"projects", "work", "personal", "creative", "learning"}

\* generate_auto_tags
generate_auto_tags(path, content_preview, f) ==
    LET ext == Suffix(path)
        extTags == {t \in DOMAIN AutoTagPatterns : ext \in AutoTagPatterns[t]}
        parts == Split(Lower(path), "/")
        pathTags == {part \in parts : part \in PathVocabulary}
                    \cup {"year_" \o part : part \in {q \in parts : StartsWith(q, "202")}}
        low == Lower(content_preview)
        contentTags ==
            IF content_preview = "" THEN {}
            ELSE (IF Contains(low, "def ") \/ Contains(low, "function ")
                  THEN {"programming"} ELSE {})
                 \cup (IF Contains(low, "import ") \/ Contains(low, "require(")
                       THEN {"code"} ELSE {})
                 \cup (IF \E w \in {"todo", "task", "deadline"} : Contains(low, w)
                       THEN {"planning"} ELSE {})
                 \cup (IF \E w \in {"meeting", "notes", "discussion"} : Contains(low, w)
                       THEN {"notes"} ELSE {})
                 \cup (IF \E w \in {"budget", "cost", "$", "expense"} : Contains(low, w)
                       THEN {"financial"} ELSE {})
        size == SizeOf(f)
        sizeTags == IF size > 100 * 1024 * 1024 THEN {"large_file"}
                    ELSE IF size * 10 < 1024 * 1024 THEN {"small_file"}
                    ELSE {}
    IN extTags \cup pathTags \cup contentTags \cup sizeTags

\* the owner index_file derives from the path
OwnerOf(path) ==
    LET after(marker) ==
            LET rest == SubSeq(path, IndexOf(path, marker) + Len(marker), Len(path))
                cut == IndexOf(rest, "/")
            IN IF cut = 0 THEN rest ELSE SubSeq(rest, 1, cut - 1)
    IN IF Contains(path, "/Work/") THEN after("/Work/")
       ELSE IF Contains(path, "/Personal/") THEN after("/Personal/")
       ELSE "Unknown"

\* ------------------------------------------------------------ the scanner
DrivePath == "/d"

\* config["index_extensions"]
IndexExtensions ==
    {".txt", ".md", ".py", ".js", ".html", ".css", ".json", ".xml",
     ".csv", ".pdf", ".doc", ".docx", ".rtf"}

\* config["exclude_dirs"]
ExcludeDirs == {".git", "node_modules", "__pycache__", ".DS_Store", "Temp", ".Trash"}

\* the directory names between the drive root and the file
DirsOf(path) ==
    Split(SubSeq(path, Len(DrivePath) + 2, LastIndexOf(path, "/") - 1), "/") \ {""}

\* build_index's walk over a volume holding the files of tree: the files
\* it passes to index_file. Directories named in exclude_dirs are pruned
\* from the walk, files whose name starts with "." are skipped, and so
\* are files whose extension is not in index_extensions.
Walked(tree) ==
    {p \in tree :
        /\ DirsOf(p) \cap ExcludeDirs = {}
        /\ ~StartsWith(FileName(p), ".")
        /\ (IndexExtensions # {} => Suffix(p) \in IndexExtensions)}

\* the files a pass over the model's volume passes to index_file
Candidates == Walked(Paths)

\* Files a volume can hold besides: hidden files, files under hidden
\* directories that are and are not in exclude_dirs, at the root and
\* deeper, a file under an excluded directory that is not hidden, and a
\* file of an extension that is not indexed.
ScanPaths ==
    {"/d/notes/b.txt", "/d/.hidden.txt", "/d/notes/.h.md", "/d/.git/c.txt",
     "/d/.cache/d.txt", "/d/Work/.venv/e.py", "/d/Temp/f.txt", "/d/notes/g.bin"}

\* ------------------------------------------------------------ table files
SetMax(S) == CHOOSE x \in S : \A y \in S : y <= x

RowIds(tbl) == {tbl[p].id : p \in DOMAIN tbl}

\* the rowid SQLite gives a row inserted without one: one more than the
\* largest in the table (the row REPLACE is about to delete still counts)
NextRowid(tbl) == IF DOMAIN tbl = {} THEN 1 ELSE SetMax(RowIds(tbl)) + 1

\* custom_tags of the row INSERT OR REPLACE writes: the column is not in the
\* statement's column list, so the new row holds NULL whatever the replaced
\* row (old, absent when there was none) held
ReplacedCustomTags(old) == SqlNull

\* the configuration load_config leaves when no search_config.json exists
DefaultConfig == [max_content_preview |-> MaxContentPreview, smart_tagging |-> TRUE]

\* the configurations the model loads
Configs == {[max_content_preview |-> MaxContentPreview, smart_tagging |-> b] : b \in BOOLEAN}

\* the values index_file computes for a path whose file is in state f
\* (every column but the rowid and custom_tags), tool being the run of
\* the external tool and config the loaded configuration; the tagger is
\* called whatever config["smart_tagging"] holds
ComputedRowWith(path, f, tool, config) ==
    LET content_preview ==
            ExtractContentPreview(path, f, tool, config.max_content_preview)
    IN [path |-> path,
        filename |-> FileName(path),
        extension |-> Suffix(path),
        size |-> SizeOf(f),
        modified |-> f.modified,
        file_hash |-> calculate_file_hash(f),
        content_preview |-> content_preview,
        tags |-> generate_auto_tags(path, content_preview, f),
        owner |-> OwnerOf(path)]

\* the same on the model's volume: default configuration, no tool
ComputedRow(path, f) == ComputedRowWith(path, f, ToolMissing, DefaultConfig)

\* Files of the types extract_content_preview runs an external tool for.
DocumentPaths == {"/d/docs/r.pdf", "/d/pics/p.jpg"}

\* the states the model finds them in
DocumentStates == {f \in FileStates : f.readable}

\* ComputedRowWith, tabulated once over them
DocumentRows ==
    {<<p, f, t, c, ComputedRowWith(p, f, t, c)>> :
        p \in DocumentPaths, f \in DocumentStates, t \in ToolRuns, c \in Configs}

\* what index_file computes for a document
ComputedDocument(path, f, tool, config) ==
    (CHOOSE r \in DocumentRows :
        r[1] = path /\ r[2] = f /\ r[3] = tool /\ r[4] = config)[5]

\* ComputedRow, tabulated once over the model's paths and file states
ComputedRows == {<<p, f, ComputedRow(p, f)>> : p \in Paths, f \in FileStates}

\* what index_file computes for path from the file now on disk
Computed(path) ==
    (CHOOSE t \in ComputedRows : t[1] = path /\ t[2] = disk[path])[3]

\* the gate with its comparison inverted: "row[0] != file_hash"
IndexUnchangedInverted(tbl, path) ==
    /\ path \in DOMAIN tbl
    /\ tbl[path].file_hash # Computed(path).file_hash

\* "if row and row[0] == file_hash": the gate of index_file, tbl being
\* the table files
IndexUnchanged(tbl, path) ==
    /\ path \in DOMAIN tbl
    /\ tbl[path].file_hash = Computed(path).file_hash

\* the row index_file writes into tbl from the values c it has computed
RowFrom(tbl, c) ==
    [id |-> NextRowid(tbl),
     path |-> c.path,
     filename |-> c.filename,
     extension |-> c.extension,
     size |-> c.size,
     modified |-> c.modified,
     file_hash |-> c.file_hash,
     content_preview |-> c.content_preview,
     tags |-> c.tags,
     custom_tags |-> ReplacedCustomTags(IF c.path \in DOMAIN tbl
                                        THEN SqlVal(tbl[c.path]) ELSE SqlNull),
     owner |-> c.owner]

\* the row index_file writes for path into tbl
NewRow(tbl, path) == RowFrom(tbl, Computed(path))

\* INSERT OR REPLACE INTO files: a row of the same path is deleted first
FilesReplace(tbl, row) == (row.path :> row) @@ tbl

\* -------------------------------------------------------- index files_fts
NoTerms == [filename |-> {}, content_preview |-> {}, tags |-> {}, custom_tags |-> {}]

\* every text a column of files can hold in the model
ColumnTexts ==
    UNION {{t[3].filename, t[3].content_preview} \cup t[3].tags : t \in ComputedRows}
    \cup UNION {{r[5].filename, r[5].content_preview} \cup r[5].tags : r \in DocumentRows}
    \cup UNION {Split(t, ",") : t \in TagArguments}

\* Tokenize, tabulated once over those texts
TermsTable == {<<s, Tokenize(s)>> : s \in ColumnTexts}

\* the terms of one text
TermsOf(s) == (CHOOSE t \in TermsTable : t[1] = s)[2]

\* the terms of a column holding a comma-joined list of the tags in S
TermsOfAll(S) == UNION {TermsOf(t) : t \in S}

\* the terms of the four indexed columns of a row of files
FtsProjection(row) ==
    [filename |-> TermsOf(row.filename),
     content_preview |-> TermsOf(row.content_preview),
     tags |-> TermsOfAll(row.tags),
     custom_tags |-> IF IsNull(row.custom_tags) THEN {}
                     ELSE TermsOfAll(ValOf(row.custom_tags))]

FtsMerge(old, new) ==
    [filename |-> old.filename \cup new.filename,
     content_preview |-> old.content_preview \cup new.content_preview,
     tags |-> old.tags \cup new.tags,
     custom_tags |-> old.custom_tags \cup new.custom_tags]

\* INSERT OR REPLACE INTO files_fts (rowid, ...) SELECT ... FROM files:
\* files_fts is an external-content table (content=files), so the terms to
\* take out of the index for a rowid it already holds are computed from the
\* row files holds NOW under that rowid, which is the new row: the terms
\* indexed earlier under the rowid stay, and the new row's terms are added.
FtsInsertOrReplace(index, row) ==
    IF row.id \in DOMAIN index
    THEN [index EXCEPT ![row.id] = FtsMerge(@, FtsProjection(row))]
    ELSE (row.id :> FtsProjection(row)) @@ index

\* DELETE FROM files; DELETE FROM files_fts: the second statement visits
\* the rows of the content table, which the first has just emptied, so it
\* deletes nothing from the index.
FtsAfterClear(index) == index

\* --------------------------------------------------------- custom_tags
\* The column holds ','.join(tags); the model keeps the set of the pieces
\* between the commas, which is what split(',') reads back.
JoinTags(S) == UNION {Split(t, ",") : t \in S}

\* "set(row[0].split(',') if row[0] else [])": NULL and '' read as no tags
ParseCustomTags(col) ==
    IF IsNull(col) \/ ValOf(col) = {""} THEN {} ELSE ValOf(col)

\* the tags add_custom_tag writes back
AddedCustomTags(col, tag) == JoinTags(ParseCustomTags(col) \cup {tag})

\* rowids with no terms left are not kept in the index
FtsCompact(index) == [r \in {x \in DOMAIN index : index[x] # NoTerms} |-> index[r]]

\* UPDATE files_fts SET custom_tags = ? WHERE rowid = (...), completing:
\* the row is re-indexed from the values files holds plus the new
\* custom_tags; terms already under the rowid stay.
FtsUpdateDone(index, row) ==
    IF row.id \in DOMAIN index
    THEN [index EXCEPT ![row.id] = FtsMerge(@, FtsProjection(row))]
    ELSE (row.id :> FtsProjection(row)) @@ index

\* The same UPDATE, refused: files already holds the new custom_tags, so
\* FTS5 takes the row's terms out column by column, finds for custom_tags
\* more terms to take out than the index holds and raises DatabaseError
\* ("database disk image is malformed"); the terms of the columns before
\* custom_tags are gone from the index by then.
FtsUpdateRefused(index, row) ==
    IF row.id \in DOMAIN index
    THEN FtsCompact([index EXCEPT ![row.id] =
            [filename |-> @.filename \ TermsOf(row.filename),
             content_preview |-> @.content_preview \ TermsOf(row.content_preview),
             tags |-> @.tags \ TermsOfAll(row.tags),
             custom_tags |-> @.custom_tags]])
    ELSE index

\* whether that UPDATE is refused: the build's FTS5 checks, and the new
\* custom_tags hold a term the index does not hold under the rowid
FtsRefuses(index, row) ==
    /\ fts5_checks
    /\ ~(FtsProjection(row).custom_tags \subseteq
            (IF row.id \in DOMAIN index THEN index[row.id].custom_tags ELSE {}))

\* ----------------------------------------------------------------- search
\* a query FTS5 cannot parse once search() has built
\* '"<query>" OR filename:<query>*' from it: the model's queries are single
\* lower-case words, or hold a character that is no bareword character
FtsSyntaxError(query) ==
    \E i \in 1..Len(query) :
        ~IsAlnum(CharAt(query, i)) /\ CharAt(query, i) \notin {" ", "_"}

\* what search() makes of each query text of the model, tabulated once:
\* whether query.strip() is empty, whether FTS5 rejects the MATCH
\* expression, and the term FTS5 looks for
QueryTable ==
    {<<q, [blank |-> Strip(q) = "",
           syntax_error |-> FtsSyntaxError(q),
           term |-> Lower(Strip(q))]>> : q \in Queries}

QueryInfo(query) == (CHOOSE t \in QueryTable : t[1] = query)[2]

\* files_fts MATCH '"<query>" OR filename:<query>*' for a one-word query:
\* the word is a term of some column, or a prefix of a term of filename
FtsMatch(entry, query) ==
    LET term == QueryInfo(query).term
    IN \/ term \in entry.filename \cup entry.content_preview
                  \cup entry.tags \cup entry.custom_tags
       \/ \E f \in entry.filename : StartsWith(f, term)

\* FROM files_fts JOIN files ON files_fts.rowid = files.id WHERE MATCH
TextSelection(query) ==
    {p \in DOMAIN files :
        files[p].id \in DOMAIN fts /\ FtsMatch(fts[files[p].id], query)}

\* every auto tag a row can hold in the model
AutoTagTexts == UNION {t[3].tags : t \in ComputedRows}

\* the pairs <<tag, file_type>> with file_type a substring of tag,
\* tabulated once
LikeTable == {x \in AutoTagTexts \X FilterFileTypes : Contains(x[1], x[2])}

\* the file_type filter
FileTypeFilter(row, file_type) ==
    IF file_type \in DOMAIN AutoTagPatterns
    THEN row.extension \in AutoTagPatterns[file_type]
    ELSE \E t \in row.tags : <<t, file_type>> \in LikeTable  \* tags LIKE '%file_type%'

\* the WHERE clause search() builds from its filters
PassesFilters(row, file_type, owner, date_range) ==
    /\ file_type # "" => FileTypeFilter(row, file_type)
    /\ owner # "" => row.owner = owner
    /\ (date_range # <<>> /\ Len(date_range) = 2) =>
            (date_range[1] <= row.modified /\ row.modified <= date_range[2])

\* the rows the SELECT of search() selects
Selection(query, file_type, owner, date_range) ==
    {p \in (IF ~QueryInfo(query).blank THEN TextSelection(query) ELSE DOMAIN files) :
        PassesFilters(files[p], file_type, owner, date_range)}

\* the number of tokens indexed under a rowid
DocLen(entry) ==
    Cardinality(entry.filename) + Cardinality(entry.content_preview)
    + Cardinality(entry.tags) + Cardinality(entry.custom_tags)

RECURSIVE TotalDocLen(_, _)
\* the number of tokens indexed under the rowids in R
TotalDocLen(index, R) ==
    IF R = {} THEN 0
    ELSE LET r == CHOOSE x \in R : TRUE
         IN DocLen(index[r]) + TotalDocLen(index, R \ {r})

\* how often the MATCH expression hits an entry: the columns that hold the
\* word, and the filename terms the word is a prefix of
TermFrequency(entry, query) ==
    LET term == QueryInfo(query).term
    IN Cardinality({c \in {"filename", "content_preview", "tags", "custom_tags"} :
                       term \in entry[c]})
       + Cardinality({f \in entry.filename : StartsWith(f, term)})

\* files_fts.rank is -bm25: -idf * tf * (k1 + 1) / (tf + k1 * (1 - b + b * dl / avgdl))
\* with k1 = 1.2, b = 0.75, avgdl = T / N, idf > 0 the same for all rows.
\* The fraction is Bm25Num / Bm25Den, in whole numbers.
Bm25Num(index, entry, query) ==
    22 * TermFrequency(entry, query) * TotalDocLen(index, DOMAIN index)

Bm25Den(index, entry, query) ==
    10 * TermFrequency(entry, query) * TotalDocLen(index, DOMAIN index)
    + 3 * TotalDocLen(index, DOMAIN index)
    + 9 * DocLen(entry) * Cardinality(DOMAIN index)

\* rank of the row of path p is below (p matches better than) that of q
RankBelow(p, q, query) ==
    LET ep == fts[files[p].id]
        eq == fts[files[q].id]
    IN Bm25Num(fts, ep, query) * Bm25Den(fts, eq, query)
       > Bm25Num(fts, eq, query) * Bm25Den(fts, ep, query)

\* the row of p comes before the row of q in the ORDER BY of search():
\* "relevance DESC, modified DESC" with query text (relevance is rank, so
\* the greater rank first), "modified DESC" without
SortsBefore(p, q, query) ==
    IF QueryInfo(query).blank
    THEN files[p].modified > files[q].modified
    ELSE \/ RankBelow(q, p, query)
         \/ (~RankBelow(p, q, query) /\ files[p].modified > files[q].modified)

\* the orders ORDER BY can give the selected rows: rows that tie on every
\* key come in any order
Orderings(S, query) ==
    {s \in [1..Cardinality(S) -> S] :
        /\ \A i, j \in 1..Cardinality(S) : i # j => s[i] # s[j]
        /\ \A i, j \in 1..Cardinality(S) : i < j => ~SortsBefore(s[j], s[i], query)}

\* LIMIT n: a negative n is no limit
Limited(s, limit) ==
    IF limit < 0 THEN s ELSE SubSeq(s, 1, Min(limit, Len(s)))

\* ------------------------------------------------------------ index_file
\* The store as the operations see it: the two tables and, beside them,
\* the record of the bytes each row was built from.
Db == [files |-> files, fts |-> fts, builtFrom |-> builtFrom]

IndexCalls == {"calculate_file_hash", "extract_content_preview", "generate_auto_tags"}

\* the functions one index_file call runs: the hash, the extractor and the
\* tagger are all called before the stored hash is looked at
CallsOfIndexFile(db, path) == IndexCalls

\* which return statement index_file leaves by
IndexResult(db, path) ==
    IF IndexUnchanged(db.files, path) THEN "unchanged" ELSE "indexed"

\* what index_file returns to its caller
IndexReturn(db, path) == IndexResult(db, path) = "indexed"

\* the store after index_file(path)
IndexedDb(db, path) ==
    IF IndexUnchanged(db.files, path)
    THEN db
    ELSE [files |-> FilesReplace(db.files, NewRow(db.files, path)),
          fts |-> FtsInsertOrReplace(db.fts, NewRow(db.files, path)),
          builtFrom |-> (path :> disk[path].content) @@ db.builtFrom]

\* index_file(path), called on its own
IndexFile(path) ==
    /\ RowIds(IndexedDb(Db, path).files) \subseteq 1..MaxId
    /\ files' = IndexedDb(Db, path).files
    /\ fts' = IndexedDb(Db, path).fts
    /\ builtFrom' = IndexedDb(Db, path).builtFrom
    /\ ret' = [op |-> "index_file", path |-> path,
               result |-> IndexResult(Db, path),
               value |-> IndexReturn(Db, path),
               calls |-> CallsOfIndexFile(Db, path)]
    /\ UNCHANGED <<tx, fts5_checks, disk, history>>

\* ----------------------------------------------------------- build_index
\* the orders in which os.walk can hand over the candidate files
WalkOrders ==
    {s \in [1..Cardinality(Candidates) -> Candidates] :
        \A i, j \in 1..Cardinality(Candidates) : i # j => s[i] # s[j]}

\* the store build_index starts its walk with
ClearedDb(db, force_rebuild) ==
    IF force_rebuild
    THEN [files |-> <<>>, fts |-> FtsAfterClear(db.fts), builtFrom |-> <<>>]
    ELSE db

RECURSIVE WalkFrom(_, _, _)
\* build_index's loop from the i-th file of the walk on; acc holds the
\* store and the two counters
WalkFrom(acc, order, i) ==
    IF i > Len(order) THEN acc
    ELSE WalkFrom([db |-> IndexedDb(acc.db, order[i]),
                   indexed_count |-> IF IndexReturn(acc.db, order[i])
                                     THEN acc.indexed_count + 1 ELSE acc.indexed_count,
                   skipped_count |-> IF IndexReturn(acc.db, order[i])
                                     THEN acc.skipped_count ELSE acc.skipped_count + 1],
                  order, i + 1)

\* a build_index whose force_rebuild also runs DELETE FROM search_history
BuildIndexClearingHistory(force_rebuild, order) ==
    LET done == WalkFrom([db |-> ClearedDb(Db, force_rebuild),
                          indexed_count |-> 0, skipped_count |-> 0], order, 1)
    IN /\ RowIds(done.db.files) \subseteq 1..MaxId
       /\ files' = done.db.files
       /\ fts' = done.db.fts
       /\ builtFrom' = done.db.builtFrom
       /\ history' = IF force_rebuild THEN <<>> ELSE history
       /\ ret' = [op |-> "build_index", force_rebuild |-> force_rebuild,
                  indexed_count |-> done.indexed_count,
                  skipped_count |-> done.skipped_count]
       /\ UNCHANGED <<tx, fts5_checks, disk>>

\* build_index(force_rebuild), the walk handing over the files in `order`
BuildIndex(force_rebuild, order) ==
    LET done == WalkFrom([db |-> ClearedDb(Db, force_rebuild),
                          indexed_count |-> 0, skipped_count |-> 0], order, 1)
    IN /\ RowIds(done.db.files) \subseteq 1..MaxId
       /\ files' = done.db.files
       /\ fts' = done.db.fts
       /\ builtFrom' = done.db.builtFrom
       /\ ret' = [op |-> "build_index", force_rebuild |-> force_rebuild,
                  indexed_count |-> done.indexed_count,
                  skipped_count |-> done.skipped_count]
       /\ UNCHANGED <<tx, fts5_checks, disk, history>>

\* ------------------------------------------------- build_index and faults
\* What can go wrong inside one index_file call: something raises before
\* the store is touched ("stat": filepath.stat(), the hash, the extractor,
\* the tagger), or one of the three statements does (the SELECT of the
\* stored hash, the INSERT OR REPLACE INTO files, the INSERT OR REPLACE
\* INTO files_fts). A write fault strikes only if the call gets to the
\* statement.
Faults == {"none", "stat", "select", "files_write", "fts_write"}

\* the faults of one pass, per file handed to index_file: at most one of
\* the calls goes wrong
FaultPlans ==
    {fp \in [Candidates -> Faults] :
        \A p, q \in Candidates : (fp[p] # "none" /\ fp[q] # "none") => p = q}

\* the fault makes a statement of this call raise
FaultStrikes(db, path, fault) ==
    \/ fault \in {"stat", "select"}
    \/ fault \in {"files_write", "fts_write"} /\ ~IndexUnchanged(db.files, path)

\* "except OSError": a handler that lets the database errors through
IndexFileCatchesOSErrorOnly(fault) == fault = "stat"

\* "except Exception as e": index_file catches whatever was raised
IndexFileCatches(fault) == fault \in Faults

\* which way index_file(path) ends under the fault: by one of its return
\* statements, by the return False of its handler, or by raising
FaultyIndexResult(db, path, fault) ==
    IF ~FaultStrikes(db, path, fault) THEN IndexResult(db, path)
    ELSE IF IndexFileCatches(fault) THEN "failed"
    ELSE "raised"

\* the store after index_file(path) under the fault: a failed statement
\* changes nothing, the statements run before it stay done (the handler
\* does not roll back)
FaultyIndexedDb(db, path, fault) ==
    IF ~FaultStrikes(db, path, fault) THEN IndexedDb(db, path)
    ELSE IF fault = "fts_write"
    THEN [files |-> FilesReplace(db.files, NewRow(db.files, path)),
          fts |-> db.fts,
          builtFrom |-> (path :> disk[path].content) @@ db.builtFrom]
    ELSE db

RECURSIVE FaultyWalkFrom(_, _, _, _)
\* build_index's loop from the i-th file of the walk on, faults[p] being
\* the fault of the index_file call on p; acc holds the store, the two
\* counters, the files handed to index_file so far, those whose call
\* failed, and whether a call raised and ended the loop
FaultyWalkFrom(acc, order, faults, i) ==
    IF i > Len(order) \/ acc.aborted THEN acc
    ELSE LET path == order[i]
             result == FaultyIndexResult(acc.db, path, faults[path])
         IN FaultyWalkFrom(
                [db |-> FaultyIndexedDb(acc.db, path, faults[path]),
                 indexed_count |-> IF result = "indexed"
                                   THEN acc.indexed_count + 1 ELSE acc.indexed_count,
                 skipped_count |-> IF result \in {"unchanged", "failed"}
                                   THEN acc.skipped_count + 1 ELSE acc.skipped_count,
                 passed |-> Append(acc.passed, path),
                 failed |-> IF result \in {"failed", "raised"}
                            THEN acc.failed \cup {path} ELSE acc.failed,
                 aborted |-> result = "raised"],
                order, faults, i + 1)

\* build_index(force_rebuild) with faults in its index_file calls; the
\* final commit is reached unless a call raised
BuildIndexWithFaults(force_rebuild, order, faults) ==
    LET done == FaultyWalkFrom([db |-> ClearedDb(Db, force_rebuild),
                                indexed_count |-> 0, skipped_count |-> 0,
                                passed |-> <<>>, failed |-> {}, aborted |-> FALSE],
                               order, faults, 1)
    IN /\ RowIds(done.db.files) \subseteq 1..MaxId
       /\ files' = done.db.files
       /\ fts' = done.db.fts
       /\ builtFrom' = done.db.builtFrom
       /\ ret' = [op |-> "build_index", force_rebuild |-> force_rebuild,
                  indexed_count |-> done.indexed_count,
                  skipped_count |-> done.skipped_count,
                  passed |-> done.passed, failed |-> done.failed,
                  committed |-> ~done.aborted]
       /\ UNCHANGED <<tx, fts5_checks, disk, history>>

\* an add_custom_tag that writes a row for a path it does not find
AddCustomTagCreating(path, tag) ==
    LET row == [(IF path \in DOMAIN files THEN files[path] ELSE NewRow(files, path))
                   EXCEPT !.custom_tags = SqlVal(AddedCustomTags(@, tag))]
    IN /\ files' = (path :> row) @@ files
       /\ fts' = IF path \notin DOMAIN files THEN fts
                 ELSE IF FtsRefuses(fts, row) THEN FtsUpdateRefused(fts, row)
                 ELSE FtsUpdateDone(fts, row)
       /\ ret' = [op |-> "add_custom_tag", path |-> path, tag |-> tag,
                  result |-> IF FtsRefuses(fts, row) THEN "raised" ELSE "added"]
       /\ UNCHANGED <<tx, fts5_checks, disk, history, builtFrom>>

\* -------------------------------------------------------- add_custom_tag
\* The UPDATE of files_fts runs after files already holds the new
\* custom_tags, so FTS5 is asked to take out of the index the terms of the
\* new tags: where it never held them, an FTS5 that checks its column
\* totals refuses the statement, one that does not completes it.
AddCustomTag(path, tag) ==
    /\ IF path \in DOMAIN files
       THEN LET row == [files[path] EXCEPT
                           !.custom_tags = SqlVal(AddedCustomTags(@, tag))]
            IN /\ files' = [files EXCEPT ![path] = row]
               /\ fts' = IF FtsRefuses(fts, row) THEN FtsUpdateRefused(fts, row)
                         ELSE FtsUpdateDone(fts, row)
               /\ ret' = [op |-> "add_custom_tag", path |-> path, tag |-> tag,
                          result |-> IF FtsRefuses(fts, row) THEN "raised" ELSE "added"]
       ELSE /\ UNCHANGED <<files, fts>>
            /\ ret' = [op |-> "add_custom_tag", path |-> path, tag |-> tag,
                       result |-> "not_found"]
    /\ UNCHANGED <<tx, fts5_checks, disk, history, builtFrom>>

\* ----------------------------------------------------------------- search
HistoryRow(query, results_count) == [query |-> query, results_count |-> results_count]

\* the history row of a search() that returns without its UPDATE of
\* results_count
FinalHistoryRowNotUpdated(query, n) == HistoryRow(query, SqlNull)

\* the row search() leaves in search_history when it returns n results
FinalHistoryRow(query, n) == HistoryRow(query, SqlVal(n))

\* search(query, file_type, owner, date_range, limit)
Search(query, file_type, owner, date_range, limit) ==
    /\ Len(history) < MaxHistory
    /\ IF ~QueryInfo(query).blank /\ QueryInfo(query).syntax_error
       THEN \* conn.execute raises: the history row stays as inserted
            /\ history' = Append(history, HistoryRow(query, SqlNull))
            /\ ret' = [op |-> "search", query |-> query, file_type |-> file_type,
                       result |-> "raised", results |-> <<>>]
       ELSE \E s \in Orderings(Selection(query, file_type, owner, date_range), query) :
                LET results == Limited(s, limit)
                IN /\ history' = Append(history, FinalHistoryRow(query, Len(results)))
                   /\ ret' = [op |-> "search", query |-> query, file_type |-> file_type,
                              result |-> "returned", results |-> results]
    /\ UNCHANGED <<tx, fts5_checks, disk, files, fts, builtFrom>>

\* ------------------------------------------------------- the environment
\* ret after a change of the file system: no call has returned since
NoCall == [op |-> "none"]

\* a file's bytes are rewritten
ModifyFile(path) ==
    /\ disk[path].modified < MaxVersion
    /\ disk' = [disk EXCEPT ![path].content = Versions[disk[path].modified + 1],
                            ![path].modified = @ + 1]
    /\ ret' = NoCall
    /\ UNCHANGED <<tx, fts5_checks, files, fts, history, builtFrom>>

\* a file becomes unreadable (open() raises) or readable again
SetReadable(path, readable) ==
    /\ readable # disk[path].readable
    /\ disk' = [disk EXCEPT ![path].readable = readable]
    /\ ret' = NoCall
    /\ UNCHANGED <<tx, fts5_checks, files, fts, history, builtFrom>>

\* --------------------------------------------------- get_search_statistics
\* LIMIT of the top-queries statement
TopQueries == 10

\* The query texts of the histories the statistics are taken of, in the
\* order of SQLite's BINARY collation (memcmp of the UTF-8 bytes).
QueryOrder ==
    <<"", "a.txt", "alpha", "q01", "q02", "q03", "q04", "q05", "q06", "q07",
      "q08", "q09">>

\* the place of a query text in that order
QueryRank(q) == CHOOSE i \in 1..Len(QueryOrder) : QueryOrder[i] = q

\* every query once, in collation order and against it
EveryQueryOnce == QueryOrder
EveryQueryOnceReversed == [i \in 1..Len(QueryOrder) |-> QueryOrder[Len(QueryOrder) + 1 - i]]

\* the sequences of at most n of the three query texts of the searches
ShortHistories(n) == UNION {[1..k -> Queries] : k \in 0..n}

\* The contents of search_history the statistics are taken of, as the
\* query column in rowid order: short histories, and histories with
\* more distinct queries than the LIMIT, with and without repeats.
StatHistories ==
    ShortHistories(3)
    \cup {long \o h : long \in {EveryQueryOnce, EveryQueryOnceReversed},
                      h \in ShortHistories(2)}

\* COUNT(*) of the group of q
QueryCount(h, q) == Cardinality({i \in 1..Len(h) : h[i] = q})

\* GROUP BY query ORDER BY count DESC as SQLite runs it: the groups come
\* out of the GROUP BY sorted by query, and the sort by count leaves
\* groups of equal count in descending order of query (descending = TRUE).
\* The list is cut at the LIMIT.
TopQueryList(h, descending) ==
    LET groups == {h[i] : i \in 1..Len(h)}
        ahead(p, q) ==
            \/ QueryCount(h, p) > QueryCount(h, q)
            \/ /\ QueryCount(h, p) = QueryCount(h, q)
               /\ IF descending THEN QueryRank(p) > QueryRank(q)
                                ELSE QueryRank(p) < QueryRank(q)
        place(q) == 1 + Cardinality({p \in groups : ahead(p, q)})
    IN [i \in 1..Min(TopQueries, Cardinality(groups)) |->
           LET q == CHOOSE g \in groups : place(g) = i
           IN <<q, QueryCount(h, q)>>]

\* a statement free to return groups of equal count in either order
TopQueryListsEitherTieOrder(h) == {TopQueryList(h, TRUE), TopQueryList(h, FALSE)}

\* the lists the top-queries statement can return over history h
TopQueryLists(h) == {TopQueryList(h, TRUE)}

\* get_search_statistics() over a search_history holding the queries h
GetSearchStatistics(h) ==
    /\ \E top \in TopQueryLists(h) :
          ret' = [op |-> "get_search_statistics", history |-> h,
                  total_files |-> Cardinality(DOMAIN files),
                  unique_queries |-> Cardinality({h[i] : i \in 1..Len(h)}),
                  top_queries |-> top]
    /\ UNCHANGED <<tx, fts5_checks, disk, files, fts, history, builtFrom>>

\* ----------------------------------------------------------- the extractor
\* the files extract_content_preview is called on: a text file, a .pdf,
\* an image exiftool reads, an image it is not run for
ExtractPaths == DocumentPaths \cup Paths \cup {"/d/pics/q.png"}

\* the calls of extract_content_preview the model makes: text files and
\* other files in every state, documents with every run of their tool
ExtractCalls ==
    {<<p, f, ToolMissing>> : p \in ExtractPaths \ DocumentPaths, f \in FileStates}
    \cup {<<p, f, t>> : p \in DocumentPaths, f \in {[content |-> Versions[1], modified |-> 1, readable |-> TRUE]}, t \in ToolRuns}

\* extract_content_preview(path) on a file in state f
ExtractPreview(path, f, tool, max_content_preview) ==
    /\ ret' = [op |-> "extract_content_preview", path |-> path, file |-> f,
               tool |-> tool, max_content_preview |-> max_content_preview,
               preview |-> ExtractContentPreview(path, f, tool, max_content_preview)]
    /\ UNCHANGED <<tx, fts5_checks, disk, files, fts, history, builtFrom>>

\* index_file(path) for a document in state f, a file of the volume
\* beside the two the model edits, under the loaded configuration
IndexDocument(path, f, tool, config) ==
    LET c == ComputedDocument(path, f, tool, config)
        unchanged == path \in DOMAIN files /\ files[path].file_hash = c.file_hash
        written == FilesReplace(files, RowFrom(files, c))
    IN /\ IF unchanged
          THEN UNCHANGED <<files, fts, builtFrom>>
          ELSE /\ RowIds(written) \subseteq 1..MaxId
               /\ files' = written
               /\ fts' = FtsInsertOrReplace(fts, RowFrom(files, c))
               /\ builtFrom' = (path :> f.content) @@ builtFrom
       /\ ret' = [op |-> "index_file", path |-> path,
                  result |-> IF unchanged THEN "unchanged" ELSE "indexed",
                  value |-> ~unchanged,
                  calls |-> IndexCalls,
                  tool |-> tool, config |-> config]
       /\ UNCHANGED <<tx, fts5_checks, disk, history>>

\* ---------------------------------------------------------------- the scan
\* the walk of build_index over a volume that holds the files of tree
ScanVolume(tree) ==
    /\ ret' = [op |-> "scan", tree |-> tree, passed |-> Walked(tree)]
    /\ UNCHANGED <<tx, fts5_checks, disk, files, fts, history, builtFrom>>

\* ------------------------------------------------------- two connections
\* Two SmartSearch objects on the same drive: each holds its own
\* sqlite3 connection to Scripts/search_index.db (rollback journal, the
\* sqlite3 module's implicit BEGIN before a writing statement, busy
\* timeout 5 s). The variables files, fts, builtFrom hold the committed
\* database; tx holds
\*   holder  the connection that holds the write lock, 0 when none does
\*   work    the database as the holder has written it, not yet committed
\*   pc      per connection, the path whose row it has written and whose
\*           index entry it has not written yet ("" outside index_file)
\*   call    per connection, the upsert that index_file call is
\*   open    the connections left inside a transaction by a refused write
\*   shared  those of them that have read since and hold a shared lock
\*   rec     path -> the upsert that wrote the committed row
\*   ent     rowid -> the upsert that last wrote the committed index entry
Conns == {1, 2}

NoTransactions ==
    [holder |-> 0, work |-> <<>>, pc |-> [c \in Conns |-> ""],
     call |-> [c \in Conns |-> <<>>],
     open |-> {}, shared |-> {}, rec |-> <<>>, ent |-> <<>>]

\* the committed database
Committed ==
    [files |-> files, fts |-> fts, builtFrom |-> builtFrom,
     rec |-> tx.rec, ent |-> tx.ent]

\* the database connection c reads: its own uncommitted writes if it
\* holds the write lock, what is committed otherwise
StoreSeenBy(c) == IF tx.holder = c THEN tx.work ELSE Committed

\* the database a writing statement changes
WriteTarget == IF tx.holder = 0 THEN Committed ELSE tx.work

\* connections whose writing statements are never refused
CanWriteUnlocked(c) == TRUE

\* a writing statement of connection c gets the write lock: no other
\* connection holds it (otherwise "database is locked" is raised)
CanWrite(c) == tx.holder \in {0, c}

\* the upsert an index_file call of connection c on path is: the
\* connection and the version of the file the call has read
UpsertId(c, path) == <<c, disk[path].modified>>

\* index_file(path) on connection c, up to and including its INSERT OR
\* REPLACE INTO files
IndexFileWriteRecord(c, path) ==
    /\ tx.pc[c] = ""
    /\ LET seen == StoreSeenBy(c)
           shared == IF c \in tx.open THEN tx.shared \cup {c} ELSE tx.shared
       IN IF IndexUnchanged(seen.files, path)
          THEN /\ tx' = [tx EXCEPT !.shared = shared]
               /\ ret' = [op |-> "index_file", conn |-> c, path |-> path,
                          result |-> "unchanged"]
          ELSE IF ~CanWrite(c)
          THEN /\ tx' = [tx EXCEPT !.shared = shared, !.open = @ \cup {c}]
               /\ ret' = [op |-> "index_file", conn |-> c, path |-> path,
                          result |-> "locked"]
          ELSE LET base == WriteTarget
                   written == FilesReplace(base.files, NewRow(base.files, path))
               IN /\ RowIds(written) \subseteq 1..MaxId
                  /\ tx' = [tx EXCEPT
                              !.holder = IF @ = 0 THEN c ELSE @,
                              !.shared = shared,
                              !.pc[c] = path,
                              !.call[c] = UpsertId(c, path),
                              !.work = [files |-> written,
                                        fts |-> base.fts,
                                        builtFrom |-> (path :> disk[path].content)
                                                      @@ base.builtFrom,
                                        rec |-> (path :> UpsertId(c, path)) @@ base.rec,
                                        ent |-> base.ent]]
                  /\ ret' = [op |-> "index_file", conn |-> c, path |-> path,
                             result |-> "record_written"]
    /\ UNCHANGED <<fts5_checks, disk, files, fts, history, builtFrom>>

\* the rest of that index_file call: INSERT OR REPLACE INTO files_fts ...
\* SELECT ... FROM files WHERE path = ?, which indexes the row files holds
\* for the path when the statement runs, and return True
IndexFileWriteEntry(c) ==
    /\ tx.pc[c] # ""
    /\ LET path == tx.pc[c]
           base == WriteTarget
       IN /\ tx' = [tx EXCEPT
                      !.pc[c] = "",
                      !.call[c] = <<>>,
                      !.work = IF path \in DOMAIN base.files
                               THEN [base EXCEPT
                                       !.fts = FtsInsertOrReplace(@, base.files[path]),
                                       !.ent = (base.files[path].id :> tx.call[c]) @@ @]
                               ELSE base]
          /\ ret' = [op |-> "index_file", conn |-> c, path |-> path,
                     result |-> "indexed"]
    /\ UNCHANGED <<fts5_checks, disk, files, fts, history, builtFrom>>

\* conn.commit() at the end of build_index on the connection that wrote:
\* refused ("database is locked") while another connection holds a shared
\* lock
CommitPass(c) ==
    /\ tx.holder = c
    /\ tx.pc[c] = ""
    /\ tx.shared \ {c} = {}
    /\ files' = tx.work.files
    /\ fts' = tx.work.fts
    /\ builtFrom' = tx.work.builtFrom
    /\ tx' = [tx EXCEPT !.holder = 0, !.work = <<>>,
                        !.open = @ \ {c}, !.shared = @ \ {c},
                        !.rec = tx.work.rec, !.ent = tx.work.ent]
    /\ ret' = [op |-> "build_index", conn |-> c, result |-> "committed"]
    /\ UNCHANGED <<fts5_checks, disk, history>>

\* the writing connection goes away without a commit (its commit raised,
\* or its process ended): SQLite rolls its transaction back
RollbackPass(c) ==
    /\ tx.holder = c
    /\ tx' = [tx EXCEPT !.holder = 0, !.work = <<>>, !.pc[c] = "", !.call[c] = <<>>,
                        !.open = @ \ {c}, !.shared = @ \ {c}]
    /\ ret' = [op |-> "build_index", conn |-> c, result |-> "rolled_back"]
    /\ UNCHANGED <<fts5_checks, disk, files, fts, history, builtFrom>>

\* conn.commit() at the end of build_index on a connection whose writes
\* were all refused: its transaction ends, its shared lock goes
EndPass(c) ==
    /\ tx.holder # c
    /\ c \in tx.open
    /\ tx.pc[c] = ""
    /\ tx' = [tx EXCEPT !.open = @ \ {c}, !.shared = @ \ {c}]
    /\ ret' = [op |-> "build_index", conn |-> c, result |-> "ended"]
    /\ UNCHANGED <<fts5_checks, disk, files, fts, history, builtFrom>>

\* search(...) on connection c while it runs no index pass: its first
\* statement is the INSERT INTO search_history, a write, so it is refused
\* (sqlite3.OperationalError "database is locked", after the busy timeout)
\* while another connection holds the write lock
SearchFrom(c, query, file_type, owner, date_range, limit) ==
    /\ tx.holder # c
    /\ tx.pc[c] = ""
    /\ IF CanWrite(c)
       THEN Search(query, file_type, owner, date_range, limit)
       ELSE /\ tx' = [tx EXCEPT !.open = @ \cup {c}]
            /\ ret' = [op |-> "search", query |-> query, file_type |-> file_type,
                       result |-> "raised", results |-> <<>>]
            /\ UNCHANGED <<fts5_checks, disk, files, fts, history, builtFrom>>

\* ------------------------------------------------------ the specification
Init ==
    /\ fts5_checks \in BOOLEAN
    /\ disk = [p \in Paths |->
                 [content |-> Versions[1], modified |-> 1, readable |-> TRUE]]
    /\ files = <<>>
    /\ fts = <<>>
    /\ history = <<>>
    /\ builtFrom = <<>>
    /\ ret = NoCall
    /\ tx = NoTransactions

\* index_file and the file system under it
NextUpsert ==
    \/ \E p \in Paths : IndexFile(p)
    \/ \E p \in Paths : ModifyFile(p)
    \/ \E p \in Paths, r \in BOOLEAN : SetReadable(p, r)

SpecUpsert == Init /\ [][NextUpsert]_vars

\* the operations that write the store, one file being edited
NextStore ==
    \/ \E p \in Paths : IndexFile(p)
    \/ \E f \in BOOLEAN, o \in WalkOrders : BuildIndex(f, o)
    \/ \E p \in Paths, t \in CustomTagInputs : AddCustomTag(p, t)
    \/ ModifyFile(PathA)

SpecStore == Init /\ [][NextStore]_vars

\* searches over a store that is being filled and tagged
NextQuery ==
    \/ \E p \in Paths : IndexFile(p)
    \/ \E p \in Paths, t \in CustomTagInputs : AddCustomTag(p, t)
    \/ \E q \in Queries, ft \in FileTypes, o \in Owners, dr \in DateRanges, l \in Limits :
          Search(q, ft, o, dr, l)

SpecQuery == Init /\ [][NextQuery]_vars

\* filtered searches over a store one of whose files is being edited
NextFilter ==
    \/ \E p \in Paths : IndexFile(p)
    \/ ModifyFile(PathA)
    \/ \E q \in Queries, ft \in FilterFileTypes, o \in Owners,
          dr \in FilterDateRanges, l \in FilterLimits :
          Search(q, ft, o, dr, l)

SpecFilter == Init /\ [][NextFilter]_vars

\* index passes whose index_file calls can fail, one file being edited
NextFaults ==
    \/ \E f \in BOOLEAN, o \in WalkOrders, faults \in FaultPlans :
          BuildIndexWithFaults(f, o, faults)
    \/ ModifyFile(PathA)

SpecFaults == Init /\ [][NextFaults]_vars

\* two connections running index passes over the same database
NextLocking ==
    \/ \E c \in Conns, p \in Paths : IndexFileWriteRecord(c, p)
    \/ \E c \in Conns : IndexFileWriteEntry(c)
    \/ \E c \in Conns : CommitPass(c)
    \/ \E c \in Conns : RollbackPass(c)
    \/ \E c \in Conns : EndPass(c)
    \/ ModifyFile(PathA)

SpecLocking == Init /\ [][NextLocking]_vars

\* connection 1 running index passes, connection 2 searching
NextReaders ==
    \/ \E p \in Paths : IndexFileWriteRecord(1, p)
    \/ IndexFileWriteEntry(1)
    \/ CommitPass(1)
    \/ \E q \in Queries : SearchFrom(2, q, "", "", <<>>, DefaultLimit)

SpecReaders == Init /\ [][NextReaders]_vars

\* walks over every volume made of the scan paths
NextScan == \E tree \in SUBSET ScanPaths : ScanVolume(tree)

SpecScan == Init /\ [][NextScan]_vars

\* the extractor on files of every type
NextExtract ==
    \E call \in ExtractCalls, m \in MaxPreviews :
        ExtractPreview(call[1], call[2], call[3], m)

SpecExtract == Init /\ [][NextExtract]_vars

\* upserts of documents
NextDocuments ==
    \E p \in DocumentPaths, f \in DocumentStates, t \in ToolRuns, c \in Configs :
        IndexDocument(p, f, t, c)

SpecDocuments == Init /\ [][NextDocuments]_vars

\* the statistics of every history
NextStatistics == \E h \in StatHistories : GetSearchStatistics(h)

SpecStatistics == Init /\ [][NextStatistics]_vars

\* searches, one that returns and one that raises, between the operations
\* that write the store, every pass a forced rebuild
NextHistory ==
    \/ \E p \in Paths : IndexFile(p)
    \/ \E o \in WalkOrders : BuildIndex(TRUE, o)
    \/ \E p \in Paths, t \in CustomTagInputs : AddCustomTag(p, t)
    \/ \E q \in {"alpha", "a.txt"} : Search(q, "", "", <<>>, DefaultLimit)

SpecHistory == Init /\ [][NextHistory]_vars

\* tagging with the wider tag arguments, one file being edited
NextTags ==
    \/ \E p \in Paths : IndexFile(p)
    \/ \E p \in Paths, t \in TagArguments : AddCustomTag(p, t)
    \/ ModifyFile(PathA)

SpecTags == Init /\ [][NextTags]_vars

Next ==
    \/ NextTags
    \/ NextHistory
    \/ NextStatistics
    \/ NextExtract
    \/ NextDocuments
    \/ NextScan
    \/ NextLocking
    \/ NextReaders
    \/ NextFaults
    \/ NextUpsert
    \/ NextStore
    \/ NextQuery
    \/ NextFilter

Spec == Init /\ [][Next]_vars


\* ============================================================ properties
Range(s) == {s[i] : i \in 1..Len(s)}

\* the index entry of a path's row mirrors the row's four indexed columns
EntryMirrors(tbl, index, path) ==
    /\ tbl[path].id \in DOMAIN index
    /\ index[tbl[path].id] = FtsProjection(tbl[path])

\* what index_file derives from the bytes a file holds now
DerivedFromBytes(path) == ComputedRow(path, [disk[path] EXCEPT !.readable = TRUE])

\* C1: the rows of files and the entries of files_fts are in one-to-one
\* correspondence: every row has an entry under its rowid, and every entry
\* is under the rowid of a row (none survives under a rowid that belongs to
\* no row any more).
C1_StoreAndIndexCorrespond ==
    /\ \A p \in DOMAIN files : files[p].id \in DOMAIN fts
    /\ \A r \in DOMAIN fts : r \in RowIds(files)

\* C2: an index_file call that re-indexes a path (result: indexed) leaves
\* the row's custom_tags as they were before the call.
C2_CustomTagsSurviveReindex ==
    [][\A p \in DOMAIN files :
          (IndexFile(p) /\ ret'.result = "indexed")
          => ParseCustomTags(files'[p].custom_tags) = ParseCustomTags(files[p].custom_tags)]_vars

\* C3: an index_file call that returns unchanged has called neither
\* extract_content_preview nor generate_auto_tags.
C3_UnchangedSkipsExtractorAndTagger ==
    (ret.op = "index_file" /\ ret.result = "unchanged")
    => ret.calls \cap {"extract_content_preview", "generate_auto_tags"} = {}

\* C4: index_file returns unchanged only for a file whose bytes are the
\* bytes its row was built from.
C4_UnchangedOnlyForSameBytes ==
    (ret.op = "index_file" /\ ret.result = "unchanged")
    => builtFrom[ret.path] = disk[ret.path].content

C6_ModifiedFileIsUpdated ==
    [][\A p \in DOMAIN files :
          (IndexFile(p) /\ builtFrom[p] # disk[p].content)
          => /\ ret'.result = "indexed"
             /\ files'[p].file_hash = DerivedFromBytes(p).file_hash
             /\ files'[p].content_preview = DerivedFromBytes(p).content_preview
             /\ files'[p].tags = DerivedFromBytes(p).tags]_vars

\* C7: whenever a call that did not raise has written the row of a path
\* (index_file, alone or within build_index, or add_custom_tag), the entry
\* under the row's rowid holds exactly the terms of the row's filename,
\* content_preview, tags and custom_tags.
C7_EntryMirrorsWrittenRow ==
    [][\A p \in DOMAIN files' :
          (/\ ~(ret'.op = "add_custom_tag" /\ ret'.result = "raised")
           /\ (p \notin DOMAIN files \/ files'[p] # files[p]))
          => EntryMirrors(files', fts', p)]_vars

\* C8: a search call that returns appends exactly one row to
\* search_history, holding the query text and, as results_count, the length
\* of the returned list (not NULL, 0 for an empty list); the rows before it
\* stay as they were. (A step that leaves ret at a returned search is a
\* search step: every other operation sets ret.op to its own name.)
C8_ReturnedSearchRecorded ==
    [][(ret'.op = "search" /\ ret'.result = "returned")
       => /\ Len(history') = Len(history) + 1
          /\ SubSeq(history', 1, Len(history)) = history
          /\ history'[Len(history')].query = ret'.query
          /\ history'[Len(history')].results_count = SqlVal(Len(ret'.results))]_vars

\* C8, reached: a search over a store that holds rows has returned the
\* empty list and its history row, after an earlier one, counts 0.
C8_Witness ==
    /\ ret.op = "search" /\ ret.result = "returned"
    /\ ret.results = <<>>
    /\ DOMAIN files # {}
    /\ Len(history) = 2
    /\ history[2] = [query |-> ret.query, results_count |-> SqlVal(0)]

\* C9: after any search call has ended, returned or raised, its row is in
\* search_history and no row of search_history has a NULL results_count.
C9_EverySearchFinalized ==
    /\ \A i \in 1..Len(history) : ~IsNull(history[i].results_count)
    /\ ret.op = "search" => (Len(history) > 0 /\ history[Len(history)].query = ret.query)

\* C10: once add_custom_tag calls have succeeded (the FTS5 build completes
\* their UPDATE), search("", file_type = t) with no other filter and the
\* default limit returns exactly the paths whose rows carry tag t.
C10_LiteralTagFilterFindsTagged ==
    [][\A t \in CustomTagInputs :
          (~fts5_checks /\ Search("", t, "", <<>>, DefaultLimit))
          => Range(ret'.results) =
                {p \in DOMAIN files :
                    t \in ParseCustomTags(files[p].custom_tags) \cup files[p].tags}]_vars


\* a row carries tag t: t is one of its auto tags or of its custom tags
HasTag(row, t) == t \in row.tags \cup ParseCustomTags(row.custom_tags)

\* a row satisfies the category filter: its extension is in the category's
\* list for a category of the table, it carries the value as a tag otherwise
SatisfiesCategory(row, file_type) ==
    IF file_type \in DOMAIN AutoTagPatterns
    THEN row.extension \in AutoTagPatterns[file_type]
    ELSE HasTag(row, file_type)

\* date_range is a pair of bounds
WellFormedRange(date_range) == Len(date_range) = 2

\* C11: a search with a category filter and an owner filter returns only
\* rows that satisfy the category filter and have exactly that owner.
C11_CategoryAndOwnerBothHold ==
    [][\A o \in Owners \ {""}, dr \in FilterDateRanges, l \in FilterLimits :
          (/\ ret'.op = "search" /\ ret'.result = "returned"
           /\ ret'.file_type # ""
           /\ Search(ret'.query, ret'.file_type, o, dr, l))
          => \A p \in Range(ret'.results) :
                /\ SatisfiesCategory(files[p], ret'.file_type)
                /\ files[p].owner = o]_vars


\* a row satisfies every filter a search specifies (a range that is no pair
\* specifies none)
SatisfiesFilters(row, file_type, owner, date_range) ==
    /\ file_type # "" => SatisfiesCategory(row, file_type)
    /\ owner # "" => row.owner = owner
    /\ (date_range # <<>> /\ WellFormedRange(date_range)) =>
            (date_range[1] <= row.modified /\ row.modified <= date_range[2])

\* C12: the filters are applied alike with and without query text: every
\* row a search returns satisfies every filter it specifies, and with query
\* text (and a limit that cuts nothing off) the rows returned are the text
\* matches that satisfy the filters.
C12_FiltersAppliedWithAndWithoutText ==
    [][\A o \in Owners, dr \in FilterDateRanges \ {<<1>>}, l \in FilterLimits :
          (/\ ret'.op = "search" /\ ret'.result = "returned"
           /\ Search(ret'.query, ret'.file_type, o, dr, l))
          => /\ \A p \in Range(ret'.results) :
                   SatisfiesFilters(files[p], ret'.file_type, o, dr)
             /\ (~QueryInfo(ret'.query).blank /\ l = DefaultLimit)
                => Range(ret'.results) =
                      {p \in TextSelection(ret'.query) :
                          SatisfiesFilters(files[p], ret'.file_type, o, dr)}]_vars


\* C13: a search whose file_type is no category of the table returns only
\* rows that carry the value as a whole tag.
C13_LiteralTagIsWholeTag ==
    (/\ ret.op = "search" /\ ret.result = "returned"
     /\ ret.file_type \notin DOMAIN AutoTagPatterns \cup {""})
    => \A p \in Range(ret.results) : HasTag(files[p], ret.file_type)


\* s lists rows of files by modified, latest first
ModifiedDescending(s) ==
    \A i, j \in 1..Len(s) : i < j => files[s[i]].modified >= files[s[j]].modified

\* C14: a search without query text returns the rows that satisfy all its
\* filters, latest modified first, cut off after limit rows; a range
\* <<t0, t1>> keeps the rows with t0 <= modified <= t1 and no others.
C14_EmptyQueryListsFilteredByTime ==
    [][\A o \in Owners, dr \in FilterDateRanges \ {<<1>>}, l \in FilterLimits \ {-1} :
          (/\ ret'.op = "search" /\ ret'.result = "returned"
           /\ Search("", ret'.file_type, o, dr, l))
          => LET passing == {p \in DOMAIN files :
                                SatisfiesFilters(files[p], ret'.file_type, o, dr)}
                 results == ret'.results
             IN /\ Range(results) \subseteq passing
                /\ Len(results) = Min(l, Cardinality(passing))
                /\ Cardinality(Range(results)) = Len(results)
                /\ ModifiedDescending(results)
                /\ \A p \in passing \ Range(results), q \in Range(results) :
                      files[q].modified >= files[p].modified]_vars


\* C15: with query text the rows come best match first (the lowest rank,
\* which is the highest bm25 score), rows of equal rank latest modified
\* first.
C15_BestMatchFirst ==
    (ret.op = "search" /\ ret.result = "returned" /\ ~QueryInfo(ret.query).blank)
    => \A i, j \in 1..Len(ret.results) :
          i < j => /\ ~RankBelow(ret.results[j], ret.results[i], ret.query)
                   /\ RankBelow(ret.results[i], ret.results[j], ret.query)
                      \/ files[ret.results[i]].modified >= files[ret.results[j]].modified


\* C16: whatever limit a search is called with, it returns at most limit
\* rows, and exactly the smaller of limit and the number of rows selected.
C16_LimitBoundsResultCount ==
    [][\A o \in Owners, dr \in FilterDateRanges, l \in FilterLimits :
          (/\ ret'.op = "search" /\ ret'.result = "returned"
           /\ Search(ret'.query, ret'.file_type, o, dr, l))
          => /\ Len(ret'.results) <= l
             /\ Len(ret'.results) =
                   Min(l, Cardinality(Selection(ret'.query, ret'.file_type, o, dr)))]_vars


\* C17: a search called with a date_range that is no pair of bounds does
\* not return a result list.
C17_MalformedRangeRejected ==
    [][\A o \in Owners, dr \in {r \in FilterDateRanges : r # <<>> /\ ~WellFormedRange(r)},
          l \in FilterLimits :
          (ret'.op = "search" /\ Search(ret'.query, ret'.file_type, o, dr, l))
          => ret'.result # "returned"]_vars


\* the row and the index entry of path in store db, if any
RecordAndEntry(db, path) ==
    IF path \notin DOMAIN db.files THEN <<>>
    ELSE <<db.files[path],
           IF db.files[path].id \in DOMAIN db.fts
           THEN <<db.fts[db.files[path].id]>> ELSE <<>> >>

\* C18: when a write statement of index_file fails for a file during a
\* pass, the pass hands every candidate to index_file and commits, and the
\* file's row and index entry are afterwards what they were before its
\* index_file call (both absent if it had none).
C18_FailedUpsertLeavesPriorRecord ==
    [][\A f \in BOOLEAN, o \in WalkOrders, faults \in FaultPlans :
          BuildIndexWithFaults(f, o, faults)
          => \A p \in Candidates :
                (/\ faults[p] \in {"files_write", "fts_write"}
                 /\ p \in ret'.failed)
                => /\ ret'.committed /\ Range(ret'.passed) = Candidates
                   /\ RecordAndEntry([files |-> files', fts |-> fts'], p)
                      = RecordAndEntry(ClearedDb(Db, f), p)]_vars

\* C19: a pass hands every candidate file of the walk to index_file, once
\* each, and reaches its final commit, whichever of the calls fail.
C19_PassSurvivesFileFailures ==
    ret.op = "build_index"
    => /\ ret.committed
       /\ Range(ret.passed) = Candidates
       /\ Len(ret.passed) = Cardinality(Candidates)
       /\ ret.indexed_count + ret.skipped_count = Cardinality(Candidates)

\* C19, reached: the first index_file call of a pass failed, and the call
\* after it indexed its file.
C19_Witness ==
    /\ ret.op = "build_index" /\ ret.committed
    /\ Len(ret.passed) = 2
    /\ ret.failed = {ret.passed[1]}
    /\ ret.indexed_count = 1
    /\ ret.passed[2] \in DOMAIN files

\* C20: add_custom_tag on a path that has no row takes the "File not found
\* in index" branch and leaves the rows of files, the entries of files_fts
\* and the rows of search_history as they were.
C20_TagOnUnknownPathChangesNothing ==
    [][\A p \in Paths, t \in CustomTagInputs :
          (AddCustomTag(p, t) /\ p \notin DOMAIN files)
          => /\ ret'.result = "not_found"
             /\ files' = files /\ fts' = fts /\ history' = history]_vars

\* C20, reached: add_custom_tag found no row for its path in a store that
\* holds a row, an index entry and a history row.
C20_Witness ==
    /\ ret.op = "add_custom_tag" /\ ret.result = "not_found"
    /\ ret.path \notin DOMAIN files
    /\ files # <<>> /\ fts # <<>> /\ history # <<>>

\* the committed row of path and its committed index entry were written
\* by the same upsert
SameUpsert(path) ==
    /\ path \in DOMAIN tx.rec
    /\ files[path].id \in DOMAIN tx.ent
    /\ tx.rec[path] = tx.ent[files[path].id]

\* the queries FTS5 can parse
ParsableQueries == {q \in Queries : ~FtsSyntaxError(q)}

\* C21: a search issued on one connection while another connection holds
\* uncommitted upserts returns a result, and the row and the index entry
\* of every record it returns were written by the same committed upsert.
C21_SearchDuringPassReturns ==
    [][\A q \in ParsableQueries :
          (/\ tx.holder = 1
           /\ tx.work.files # files
           /\ SearchFrom(2, q, "", "", <<>>, DefaultLimit))
          => /\ ret'.result = "returned"
             /\ \A i \in 1..Len(ret'.results) : SameUpsert(ret'.results[i])]_vars

\* C22: in every committed state, the row and the index entry of each path
\* were written by the same upsert, whatever two connections running
\* index passes over the same paths do.
C22_RecordAndEntryFromSameUpsert ==
    \A p \in DOMAIN files : SameUpsert(p)

\* C22, reached: connection 1 has written the row of a path and not yet its
\* index entry, connection 2's upsert of the same path has just been
\* refused, and the path has a committed row from an earlier pass.
C22_Witness ==
    /\ tx.holder = 1
    /\ tx.pc[1] # ""
    /\ ret.op = "index_file" /\ ret.conn = 2 /\ ret.result = "locked"
    /\ ret.path = tx.pc[1]
    /\ ret.path \in DOMAIN files

\* a hidden entry: the file's own name, or the name of a directory
\* between the root and the file, starts with "."
IsHidden(path) ==
    \/ StartsWith(FileName(path), ".")
    \/ \E d \in DirsOf(path) : StartsWith(d, ".")

\* C23: the walk of build_index passes no hidden entry to index_file.
C23_ScanYieldsNoHiddenEntry ==
    ret.op = "scan" => \A p \in ret.passed : ~IsHidden(p)

\* C24: whatever the file's type and the configured max_content_preview,
\* the preview extract_content_preview returns is at most
\* max_content_preview characters long.
C24_PreviewWithinConfiguredMaximum ==
    ret.op = "extract_content_preview"
    => Len(ret.preview) <= ret.max_content_preview

\* the runs of an external tool that yield no text: it exited nonzero, timed
\* out or is not installed
ToolFailed(tool) == tool.status \in {"nonzero", "timeout", "missing"}

\* C25: when the external tool fails, an index_file call on the document
\* goes on with the empty preview the extractor returned: it leaves by one
\* of its two return statements, and the row it writes holds an empty
\* content_preview and has an index entry.
C25_ToolFailureGivesEmptyPreview ==
    (ret.op = "index_file" /\ ret.path \in DocumentPaths /\ ToolFailed(ret.tool))
    => /\ ret.result \in {"indexed", "unchanged"}
       /\ ret.result = "indexed"
          => /\ ret.path \in DOMAIN files
             /\ files[ret.path].content_preview = ""
             /\ files[ret.path].id \in DOMAIN fts

\* C25, reached: pdftotext timed out after printing some text, and the
\* index_file call has written the file's row.
C25_Witness ==
    /\ ret.op = "index_file" /\ ret.path = "/d/docs/r.pdf"
    /\ ret.tool.status = "timeout" /\ ret.tool.stdout # ""
    /\ ret.result = "indexed"
    /\ files[ret.path].content_preview = ""

\* C26: with config["smart_tagging"] false, an index_file call that writes
\* a row does not call generate_auto_tags and stores no auto tags; with it
\* true, the stored tags are the tagger's output.
C26_SmartTaggingSwitchesTagger ==
    (ret.op = "index_file" /\ ret.path \in DocumentPaths /\ ret.result = "indexed")
    => IF ret.config.smart_tagging
       THEN files[ret.path].tags
            = generate_auto_tags(ret.path, files[ret.path].content_preview,
                                 [content |-> builtFrom[ret.path]])
       ELSE /\ "generate_auto_tags" \notin ret.calls
            /\ files[ret.path].tags = {}

\* what get_search_statistics is to report over the history in r: the
\* number of distinct queries, and the TopQueries most frequent queries
\* with their counts, in non-increasing order of count
ReportsTopQueries(r) ==
    LET h == r.history
        top == r.top_queries
        distinct == {h[i] : i \in 1..Len(h)}
        listed == {top[i][1] : i \in 1..Len(top)}
    IN /\ r.unique_queries = Cardinality(distinct)
       /\ Len(top) = Min(TopQueries, Cardinality(distinct))
       /\ Cardinality(listed) = Len(top)
       /\ \A i \in 1..Len(top) :
             top[i][1] \in distinct /\ top[i][2] = QueryCount(h, top[i][1])
       /\ \A i, j \in 1..Len(top) : i < j => top[i][2] >= top[j][2]
       /\ \A q \in distinct \ listed :
             \A i \in 1..Len(top) : QueryCount(h, q) <= top[i][2]

C28_HistoryRowsNeverChange ==
    [][/\ Len(history') >= Len(history)
       /\ SubSeq(history', 1, Len(history)) = history
       /\ ret'.op \in {"index_file", "build_index", "add_custom_tag"}
          => history' = history]_vars

\* C28, reached: a forced rebuild has run over a store that held rows,
\* after searches that returned and that raised.
C28_Witness ==
    /\ ret.op = "build_index" /\ ret.force_rebuild
    /\ Len(history) = 2
    /\ ~IsNull(history[1].results_count)
    /\ IsNull(history[2].results_count)
    /\ files # <<>>

\* C29: at the end of a pass, indexed_count is the number of files whose
\* row the pass created or updated and skipped_count (reported as
\* "unchanged") the number of files whose stored hash matched; a file
\* whose index_file call failed is counted in neither.
C29_CountsLeaveOutFailedFiles ==
    [][ret'.op = "build_index"
       => LET before == ClearedDb(Db, ret'.force_rebuild).files
              sound == Candidates \ ret'.failed
              written == {p \in sound :
                             p \notin DOMAIN before \/ files'[p] # before[p]}
          IN /\ ret'.indexed_count = Cardinality(written)
             /\ ret'.skipped_count = Cardinality(sound \ written)]_vars

\* C30: an add_custom_tag that succeeds changes only custom_tags of the
\* path's row and index entry: the tags afterwards are the tags before
\* united with {tag}, the row's other columns are as before, and every
\* other row and entry is as before.
C30_TagChangesOnlyCustomTags ==
    [][\A p \in Paths, t \in TagArguments :
          (AddCustomTag(p, t) /\ ret'.result = "added")
          => LET id == files[p].id
             IN /\ DOMAIN files' = DOMAIN files
                /\ \A q \in DOMAIN files \ {p} : files'[q] = files[q]
                /\ [files'[p] EXCEPT !.custom_tags = files[p].custom_tags] = files[p]
                /\ ParseCustomTags(files'[p].custom_tags)
                       = ParseCustomTags(files[p].custom_tags) \cup {t}
                /\ DOMAIN fts' = DOMAIN fts
                /\ \A r \in DOMAIN fts \ {id} : fts'[r] = fts[r]
                /\ id \in DOMAIN fts =>
                       [fts'[id] EXCEPT !.custom_tags = fts[id].custom_tags] = fts[id]]_vars

====
